---- MODULE Spec2Model ----
(***************************************************************************)
(* Model of factors.py: Shor's order finding specialised to N = 15.        *)
(*                                                                         *)
(*   c_amod15          the hard-coded multiplication circuit (lines 7-37)  *)
(*   phase_estimation  the construction of the estimation circuit and the  *)
(*                     single-shot sample (lines 39-84)                    *)
(*   __main__          the retry loop: phase, period, guesses (121-151)    *)
(*                                                                         *)
(* The simulator (Sampler) is external.  Its one-shot sample is taken     *)
(* either as any integer of [0, 2^precision) (Spec, SpecAnyA) or as an     *)
(* outcome of the noiseless circuit (SpecExact).                           *)
(***************************************************************************)
EXTENDS Integers, Sequences, FiniteSets, TLC

VARIABLES
    \* ---- __main__ (lines 121-151)
    pc,            \* position in the while loop
    a,             \* the multiplier (line 121)
    ATTEMPT,       \* line 125
    FACTOR_FOUND,  \* line 124
    phase,         \* <<measurement, 2^precision>>: the float measurement / 2^precision
    r,             \* line 139
    guesses,       \* line 145 (keeps its last value, like the Python name)
    gi,            \* position of the for loop of line 147 in guesses
    reported,      \* the factors printed by line 150, in order
    printed_r,     \* the periods printed by line 141, one per attempt
    \* ---- c_amod15 called on its own (lines 7-37)
    op_pc, op_a, c_U, target, x0, napplied, lastctl,
    \* ---- phase_estimation (lines 39-84)
    pe_pc, precision, qc, index, reps, measurement, pe_result,
    \* ---- Fraction(p/q).limit_denominator(N).denominator (lines 138-139)
    fr_pc, fr_p, fr_q, fr_float, fr_r

mainVars == <<pc, a, ATTEMPT, FACTOR_FOUND, phase, r, guesses, gi, reported, printed_r>>
opVars   == <<op_pc, op_a, c_U, target, x0, napplied, lastctl>>
peVars   == <<pe_pc, precision, qc, index, reps, measurement, pe_result>>
frVars   == <<fr_pc, fr_p, fr_q, fr_float, fr_r>>
vars     == <<mainVars, opVars, peVars, frVars>>

\* what each part leaves alone
notMain == <<opVars, peVars, frVars>>
notOp   == <<mainVars, peVars, frVars>>
notPE   == <<mainVars, opVars, frVars>>
notFr   == <<mainVars, opVars, peVars>>

-----------------------------------------------------------------------------
(* Program constants *)

N == 15

PRECISION == 8

NQUBITS == 4

(* Bounds of the model *)

\* the while loop of line 129 is unbounded: attempts are cut off here
MaxAttempts == 2

\* applications of the controlled gate to one register value
MaxApply == 4

\* the counting qubits tried for phase_estimation
MaxPrecision == 5

\* fractional bits kept when a quotient p/q is rounded to a binary float
\* (a double keeps 53; TLC's integers are 32 bits wide)
FloatBits == 16

\* multipliers tried: 0 .. MaxA
MaxA == 16

-----------------------------------------------------------------------------
(* Arithmetic *)

RECURSIVE gcd(_, _)
gcd(x, y) == IF y = 0 THEN x ELSE gcd(y, x % y)

RECURSIVE Pow(_, _)
Pow(b, e) == IF e = 0 THEN 1 ELSE b * Pow(b, e - 1)

Abs(x) == IF x < 0 THEN -x ELSE x

\* bit q of the register value v; qubit 0 is the least significant bit
Bit(v, q) == (v \div Pow(2, q)) % 2

-----------------------------------------------------------------------------
(* c_amod15, lines 7-37 *)

\* U.swap(i, j) on a register value
swap(v, i, j) ==
    LET bi == Bit(v, i)
        bj == Bit(v, j)
    IN  v - bi * Pow(2, i) - bj * Pow(2, j) + bj * Pow(2, i) + bi * Pow(2, j)

\* U.x(q) on a register value
x(v, q) == IF Bit(v, q) = 1 THEN v - Pow(2, q) ELSE v + Pow(2, q)

\* line 16: the multipliers accepted
Units_no13 == {2, 4, 7, 8, 11}

Units == {2, 4, 7, 8, 11, 13}

\* lines 19-29 with the last swap of the [7, 8] chain left out
Swaps_short(av) ==
    (IF av \in {2, 13} THEN << <<"swap", 2, 3>>, <<"swap", 1, 2>>, <<"swap", 0, 1>> >> ELSE << >>)
    \o (IF av \in {7, 8} THEN << <<"swap", 0, 1>>, <<"swap", 1, 2>> >> ELSE << >>)
    \o (IF av \in {4, 11} THEN << <<"swap", 1, 3>>, <<"swap", 0, 2>> >> ELSE << >>)

\* lines 19-29: the swaps appended for a
Swaps(av) ==
    (IF av \in {2, 13} THEN << <<"swap", 2, 3>>, <<"swap", 1, 2>>, <<"swap", 0, 1>> >> ELSE << >>)
    \o (IF av \in {7, 8} THEN << <<"swap", 0, 1>>, <<"swap", 1, 2>>, <<"swap", 2, 3>> >> ELSE << >>)
    \o (IF av \in {4, 11} THEN << <<"swap", 1, 3>>, <<"swap", 0, 2>> >> ELSE << >>)

\* lines 30-32: the complement of every qubit
Complement(av) ==
    IF av \in {7, 11, 13}
    THEN [q \in 1..NQUBITS |-> <<"x", q - 1, q - 1>>]
    ELSE << >>

\* the value c_amod15 returns, or the ValueError of line 17
c_amod15(av, Nv) ==
    IF av \notin Units
    THEN [raised |-> TRUE, name |-> << >>, gates |-> << >>]
    ELSE [raised |-> FALSE, name |-> <<av, Nv>>, gates |-> Swaps(av) \o Complement(av)]

\* the gates of U applied in order to a register value
RECURSIVE ApplyGates(_, _)
ApplyGates(gates, v) ==
    IF gates = << >> THEN v
    ELSE LET g == Head(gates)
         IN  ApplyGates(Tail(gates),
                        IF g[1] = "swap" THEN swap(v, g[2], g[3]) ELSE x(v, g[2]))

\* line 36, U.control(): U acts when the control qubit is 1, nothing otherwise
Controlled(cu, ctl, v) == IF ctl = 1 THEN ApplyGates(cu.gates, v) ELSE v

-----------------------------------------------------------------------------
(* c_amod15 called on its own: any multiplier, then the controlled gate     *)
(* applied to any value of the 4-qubit target register.                     *)

NoGate == [raised |-> FALSE, name |-> << >>, gates |-> << >>]

InitOp ==
    /\ op_pc = "call"
    /\ op_a = 0
    /\ c_U = NoGate
    /\ target = 0
    /\ x0 = 0
    /\ napplied = 0
    /\ lastctl = 0

\* c_amod15(av, N): the gate, or the ValueError of line 17
OpBuild ==
    /\ op_pc = "call"
    /\ \E av \in 0..MaxA :
          LET res == c_amod15(av, N)
          IN  /\ op_a' = av
              /\ IF res.raised
                 THEN op_pc' = "raised" /\ c_U' = c_U
                 ELSE op_pc' = "built" /\ c_U' = res
    /\ UNCHANGED <<target, x0, napplied, lastctl>>
    /\ UNCHANGED notOp

\* the target register is prepared in a basis state
OpLoad ==
    /\ op_pc = "built"
    /\ \E v \in 0..(Pow(2, NQUBITS) - 1) :
          /\ target' = v
          /\ x0' = v
    /\ op_pc' = "loaded"
    /\ UNCHANGED <<op_a, c_U, napplied, lastctl>>
    /\ UNCHANGED notOp

\* one application of the controlled gate, the control qubit being 0 or 1
OpApply ==
    /\ op_pc = "loaded"
    /\ napplied < MaxApply
    /\ \E ctl \in {0, 1} :
          /\ target' = Controlled(c_U, ctl, target)
          /\ napplied' = napplied + ctl
          /\ lastctl' = ctl
    /\ UNCHANGED <<op_pc, op_a, c_U, x0>>
    /\ UNCHANGED notOp

NextOp == OpBuild \/ OpLoad \/ OpApply

-----------------------------------------------------------------------------
(* phase_estimation, lines 39-84.  The circuit qc is the sequence of the    *)
(* instructions appended to it; qubits 0 .. precision-1 are the control     *)
(* register, the NQUBITS after them the target register.                    *)

control_register(p) == [i \in 1..p |-> i - 1]

target_register(p) == [i \in 1..NQUBITS |-> p + i - 1]

\* line 68: range(2**index), off by a linear count
Repetitions_linear(i) == i + 1

\* line 68: range(2**index)
Repetitions(i) == Pow(2, i)

\* line 84: measurement / 2**precision, a float; the quotient num / den is
\* rounded to FloatBits fractional bits and kept as <<numerator, denominator>>
FloatDiv(num, den) == <<(2 * num * Pow(2, FloatBits) + den) \div (2 * den), Pow(2, FloatBits)>>

InitPE ==
    /\ pe_pc = "call"
    /\ precision = 0
    /\ qc = << >>
    /\ index = 0
    /\ reps = 0
    /\ measurement = 0
    /\ pe_result = <<0, 1>>

\* lines 54-63: the registers, and psi_prep composed on the target register
PECall ==
    /\ pe_pc = "call"
    /\ \E p \in 1..MaxPrecision :
          /\ precision' = p
          /\ qc' = << [op |-> "psi_prep", qubits |-> target_register(p)] >>
    /\ index' = 0
    /\ pe_pc' = "for"
    /\ UNCHANGED <<reps, measurement, pe_result>>
    /\ UNCHANGED notPE

\* lines 66-67: the next control qubit and its Hadamard, or the loop's end
PEFor ==
    /\ pe_pc = "for"
    /\ IF index < precision
       THEN /\ qc' = Append(qc, [op |-> "h", qubits |-> <<control_register(precision)[index + 1]>>])
            /\ reps' = 0
            /\ pe_pc' = "range"
       ELSE /\ pe_pc' = "qft"
            /\ UNCHANGED <<qc, reps>>
    /\ UNCHANGED <<precision, index, measurement, pe_result>>
    /\ UNCHANGED notPE

\* lines 68-73: one more controlled operation on [qubit] + target_register,
\* or the end of the inner loop
PERange ==
    /\ pe_pc = "range"
    /\ IF reps < Repetitions(index)
       THEN /\ qc' = Append(qc, [op |-> "controlled_operation",
                                 qubits |-> <<control_register(precision)[index + 1]>>
                                            \o target_register(precision)])
            /\ reps' = reps + 1
            /\ UNCHANGED <<index, pe_pc>>
       ELSE /\ index' = index + 1
            /\ pe_pc' = "for"
            /\ UNCHANGED <<qc, reps>>
    /\ UNCHANGED <<precision, measurement, pe_result>>
    /\ UNCHANGED notPE

\* lines 75-79: the inverse QFT on the control register
PEQft ==
    /\ pe_pc = "qft"
    /\ qc' = Append(qc, [op |-> "iqft", qubits |-> control_register(precision)])
    /\ pe_pc' = "measure"
    /\ UNCHANGED <<precision, index, reps, measurement, pe_result>>
    /\ UNCHANGED notPE

\* line 81
PEMeasure ==
    /\ pe_pc = "measure"
    /\ qc' = Append(qc, [op |-> "measure", qubits |-> control_register(precision)])
    /\ pe_pc' = "sample"
    /\ UNCHANGED <<precision, index, reps, measurement, pe_result>>
    /\ UNCHANGED notPE

\* lines 83-84: one shot of the sampler, and the phase returned
PESample ==
    /\ pe_pc = "sample"
    /\ \E m \in 0..(Pow(2, precision) - 1) :
          /\ measurement' = m
          /\ pe_result' = FloatDiv(m, Pow(2, precision))
    /\ pe_pc' = "done"
    /\ UNCHANGED <<precision, qc, index, reps>>
    /\ UNCHANGED notPE

NextPE == PECall \/ PEFor \/ PERange \/ PEQft \/ PEMeasure \/ PESample

-----------------------------------------------------------------------------
(* Fraction(phase).limit_denominator(N).denominator, lines 138-139.         *)
(* A fraction is <<numerator, denominator>>.                                *)

\* Fraction(n, d): lowest terms
Fraction(num, den) == LET g == gcd(num, den) IN <<num \div g, den \div g>>

\* the while loop of limit_denominator: the convergents of n/d up to the
\* first denominator above max_denominator
RECURSIVE LimitLoop(_, _, _, _, _, _, _)
LimitLoop(p0, q0, p1, q1, n, d, max_denominator) ==
    LET ai == n \div d
        q2 == q0 + ai * q1
    IN  IF q2 > max_denominator
        THEN <<p0, q0, p1, q1, n, d>>
        ELSE LimitLoop(p1, q1, p0 + ai * p1, q2, d, n - ai * d, max_denominator)

\* |f - g| <= |h - g| for fractions f, g, h
NoFarther(f, h, g) ==
    Abs(f[1] * g[2] - g[1] * f[2]) * h[2] <= Abs(h[1] * g[2] - g[1] * h[2]) * f[2]

\* Fraction.limit_denominator: the closest fraction to f whose denominator
\* is at most max_denominator
limit_denominator(f, max_denominator) ==
    IF f[2] <= max_denominator
    THEN f
    ELSE LET s  == LimitLoop(0, 1, 1, 0, f[1], f[2], max_denominator)
             k  == (max_denominator - s[2]) \div s[4]
             bound1 == Fraction(s[1] + k * s[3], s[2] + k * s[4])
             bound2 == Fraction(s[3], s[4])
         IN  IF NoFarther(bound2, bound1, f) THEN bound2 ELSE bound1

\* line 139 reading the numerator in place of the denominator
denominator_numerator(ph, Nv) == limit_denominator(Fraction(ph[1], ph[2]), Nv)[1]

\* lines 138-139: the period read off a phase
denominator(ph, Nv) == limit_denominator(Fraction(ph[1], ph[2]), Nv)[2]

InitFr ==
    /\ fr_pc = "call"
    /\ fr_p = 0
    /\ fr_q = 1
    /\ fr_float = <<0, 1>>
    /\ fr_r = 0

\* the float p / q of a fraction in lowest terms of [0, 1), q <= N
FrDivide ==
    /\ fr_pc = "call"
    /\ \E q \in 1..N : \E p \in 0..(q - 1) :
          /\ gcd(p, q) = 1
          /\ fr_p' = p
          /\ fr_q' = q
          /\ fr_float' = FloatDiv(p, q)
    /\ fr_pc' = "float"
    /\ UNCHANGED fr_r
    /\ UNCHANGED notFr

\* lines 138-139 on that float
FrExtract ==
    /\ fr_pc = "float"
    /\ fr_r' = denominator(fr_float, N)
    /\ fr_pc' = "done"
    /\ UNCHANGED <<fr_p, fr_q, fr_float>>
    /\ UNCHANGED notFr

NextFr == FrDivide \/ FrExtract

-----------------------------------------------------------------------------
(* __main__, lines 121-151 *)

\* line 143 without its test
PhaseNonZero_always(ph) == TRUE

\* line 143: phase != 0
PhaseNonZero(ph) == ph[1] # 0

\* line 145 with the exponent r in place of r//2
Guesses_whole(av, rv, Nv) ==
    <<gcd(Pow(av, rv) - 1, Nv), gcd(Pow(av, rv) + 1, Nv)>>

\* line 145: the two guesses gcd(a^(r//2) -+ 1, N)
Guesses(av, rv, Nv) ==
    <<gcd(Pow(av, rv \div 2) - 1, Nv), gcd(Pow(av, rv \div 2) + 1, Nv)>>

\* line 148 without the exclusion of 1 and N
Accepted_trivial(guess, Nv) == (Nv % guess) = 0

\* line 148: guess not in [1, N] and (N % guess) == 0
Accepted(guess, Nv) == guess \notin {1, Nv} /\ (Nv % guess) = 0

InitMainVars ==
    /\ pc = "while"
    /\ ATTEMPT = 0
    /\ FACTOR_FOUND = FALSE
    /\ phase = <<0, 1>>
    /\ r = 0
    /\ guesses = << >>
    /\ gi = 0
    /\ reported = << >>
    /\ printed_r = << >>

\* line 129 after an attempt in which a factor was found: the loop ends
MainWhile_continue ==
    /\ pc = "while"
    /\ pc' = "attempt"
    /\ UNCHANGED <<a, ATTEMPT, FACTOR_FOUND, phase, r, guesses, gi, reported, printed_r>>
    /\ UNCHANGED notMain

\* line 129: while not FACTOR_FOUND
MainWhile ==
    /\ pc = "while"
    /\ pc' = IF ~FACTOR_FOUND THEN "attempt" ELSE "done"
    /\ UNCHANGED <<a, ATTEMPT, FACTOR_FOUND, phase, r, guesses, gi, reported, printed_r>>
    /\ UNCHANGED notMain

\* line 83 on the contract of the sampler alone: one integer of
\* [0, 2^precision)
AnyOutcomes(cu, p) == 0..(Pow(2, p) - 1)

\* cu's gate applied k times to the register value v
RECURSIVE ApplyTimes(_, _, _)
ApplyTimes(cu, k, v) == IF k = 0 THEN v ELSE ApplyTimes(cu, k - 1, ApplyGates(cu.gates, v))

\* the length of the orbit of psi_prep's state (lines 93-97: qubit 0 set,
\* the register value 1) under cu's gate
OrbitLength(cu) ==
    CHOOSE k \in 1..Pow(2, NQUBITS) :
        /\ ApplyTimes(cu, k, 1) = 1
        /\ \A j \in 1..(k - 1) : ApplyTimes(cu, j, 1) # 1

\* line 83 on the noiseless circuit of lines 60-81: control value k applies
\* the gate k times to the state 1, so after the inverse QFT the outcomes of
\* probability other than 0 are the m with m * OrbitLength = 0 mod 2^precision
ExactOutcomes(cu, p) ==
    {m \in 0..(Pow(2, p) - 1) : (m * OrbitLength(cu)) % Pow(2, p) = 0}

\* lines 130-141: the attempt counter, the operator, one phase estimation
\* (one sample of the PRECISION control qubits, drawn from outcomes), the
\* period
Attempt(outcomes) ==
    /\ pc = "attempt"
    /\ ATTEMPT < MaxAttempts
    /\ ATTEMPT' = ATTEMPT + 1
    /\ IF c_amod15(a, N).raised
       THEN /\ pc' = "raised"
            /\ UNCHANGED <<phase, r, printed_r>>
       ELSE /\ \E m \in outcomes :
                  /\ phase' = FloatDiv(m, Pow(2, PRECISION))
                  /\ r' = denominator(FloatDiv(m, Pow(2, PRECISION)), N)
                  /\ printed_r' = Append(printed_r, denominator(FloatDiv(m, Pow(2, PRECISION)), N))
            /\ pc' = "if"
    /\ UNCHANGED <<a, FACTOR_FOUND, guesses, gi, reported>>
    /\ UNCHANGED notMain

\* an attempt whose sample is any integer the sampler's contract allows
MainAttempt == Attempt(AnyOutcomes(c_amod15(a, N), PRECISION))

\* an attempt whose sample is an outcome of the noiseless circuit
MainAttemptExact == Attempt(ExactOutcomes(c_amod15(a, N), PRECISION))

\* lines 143-146: the guesses, computed only for a phase other than 0
MainIf ==
    /\ pc = "if"
    /\ IF PhaseNonZero(phase)
       THEN /\ guesses' = Guesses(a, r, N)
            /\ gi' = 1
            /\ pc' = "for"
       ELSE /\ pc' = "while"
            /\ UNCHANGED <<guesses, gi>>
    /\ UNCHANGED <<a, ATTEMPT, FACTOR_FOUND, phase, r, reported, printed_r>>
    /\ UNCHANGED notMain

\* lines 147-151: the next guess is tested, and reported when it is a factor
MainFor ==
    /\ pc = "for"
    /\ IF gi <= Len(guesses)
       THEN /\ IF Accepted(guesses[gi], N)
               THEN /\ reported' = Append(reported, guesses[gi])
                    /\ FACTOR_FOUND' = TRUE
               ELSE UNCHANGED <<reported, FACTOR_FOUND>>
            /\ gi' = gi + 1
            /\ pc' = pc
       ELSE /\ pc' = "while"
            /\ UNCHANGED <<reported, FACTOR_FOUND, gi>>
    /\ UNCHANGED <<a, ATTEMPT, phase, r, guesses, printed_r>>
    /\ UNCHANGED notMain

NextMain == MainWhile \/ MainAttempt \/ MainIf \/ MainFor

NextMainExact == MainWhile \/ MainAttemptExact \/ MainIf \/ MainFor

-----------------------------------------------------------------------------
(* Specifications *)

\* the program as written, a = 8 (line 121), on any sample the sampler's
\* contract allows
Init == a = 8 /\ InitMainVars /\ InitOp /\ InitPE /\ InitFr

Spec == Init /\ [][NextMain]_vars

\* the loop of __main__ for any multiplier 2 <= a < N (line 101)
InitAnyA == a \in 2..(N - 1) /\ InitMainVars /\ InitOp /\ InitPE /\ InitFr

SpecAnyA == InitAnyA /\ [][NextMain]_vars

\* the loop of __main__ for any multiplier, on the samples of the noiseless
\* circuit
SpecExact == InitAnyA /\ [][NextMainExact]_vars

\* c_amod15 on any multiplier, its gate on any register value
SpecOp == Init /\ [][NextOp]_vars

\* phase_estimation for any precision of 1 .. MaxPrecision
SpecPE == Init /\ [][NextPE]_vars

\* the period extraction on any fraction p/q of [0, 1) with q <= N
SpecFr == Init /\ [][NextFr]_vars

-----------------------------------------------------------------------------
(* Properties *)

\* C1: every factor the loop reports is different from 1, different from N
\* and divides N exactly.
C1_ReportedAreNonTrivialDivisors ==
    \A i \in 1..Len(reported) :
        reported[i] # 1 /\ reported[i] # 15 /\ 15 % reported[i] = 0

C1_Witness == pc = "done" /\ reported = <<3, 5>>

\* C2, as stated: with a = 8, N = 15, precision = 8, a run that has found a
\* factor holds an attempt whose period is 4.
C2_FoundHasPeriod4 ==
    (a = 8 /\ FACTOR_FOUND) => \E i \in 1..Len(printed_r) : printed_r[i] = 4

\* C2, amended: with a = 8, a run that has found a factor found it in an
\* attempt whose phase is not 0 and whose period r has 8^(r//2) mod 15 other
\* than 1 (r is none of 1, 8, 9); an attempt with r = 4 is one of them and
\* reports 3 and 5, an attempt with r = 2 is another and reports 3.
C2_FoundHasUsefulPeriod ==
    a = 8 =>
        /\ FACTOR_FOUND =>
              /\ phase[1] # 0
              /\ r \notin {1, 8, 9}
              /\ Pow(8, r \div 2) % 15 # 1
              /\ printed_r[Len(printed_r)] = r
        /\ (pc \in {"while", "done"} /\ r = 4) => reported = <<3, 5>>
        /\ (pc \in {"while", "done"} /\ r = 2) => reported = <<3>>

C2_Witness ==
    /\ a = 8 /\ pc = "done"
    /\ 2 * phase[1] = phase[2]
    /\ r = 2 /\ printed_r = <<2>> /\ reported = <<3>>

\* the multiplicative order of av modulo 15
Ord(av) == CHOOSE k \in 1..15 :
              /\ Pow(av, k) % 15 = 1
              /\ \A j \in 1..(k - 1) : Pow(av, j) % 15 # 1

\* C3: for a in {2,4,7,8,11,13} the transform of c_amod15(a, 15), applied
\* ord(a) times, returns every 4-bit value to itself.
C3_OrdApplicationsAreIdentity ==
    (op_pc = "loaded" /\ op_a \in {2, 4, 7, 8, 11, 13} /\ napplied = Ord(op_a))
        => target = x0

C3_Witness ==
    op_pc = "loaded" /\ op_a = 7 /\ x0 = 6 /\ napplied = 4 /\ target = 6

\* C4: for a in {2,4,7,8,11,13} and every residue x of 0..14, the transform
\* of c_amod15(a, 15) applied once with its control bit set maps x to
\* (a * x) mod 15.
C4_MultipliesModulo15 ==
    (op_pc = "loaded" /\ op_a \in {2, 4, 7, 8, 11, 13} /\ x0 \in 0..14
        /\ napplied = 1 /\ lastctl = 1)
        => target = (op_a * x0) % 15

\* C5: for p/q in lowest terms, 0 <= p/q < 1, q <= N, the denominator of
\* Fraction(p/q).limit_denominator(N) is q; phase 0 gives 1.
C5_PeriodRoundTrip ==
    fr_pc = "done" => (fr_r = fr_q /\ (fr_p = 0 => fr_r = 1))

C5_Witness ==
    /\ fr_pc = "done"
    /\ fr_p = 4 /\ fr_q = 15 /\ fr_r = 15
    /\ Fraction(fr_float[1], fr_float[2])[2] > 15

\* C6: an attempt whose phase is 0 computes no guesses, reports nothing,
\* raises nothing and leaves the loop searching: the next step of the loop
\* test starts a further attempt.
C6_ZeroPhaseStep ==
    /\ (pc = "if" /\ phase[1] = 0) =>
          /\ pc' = "while"
          /\ guesses' = guesses
          /\ gi' = gi
          /\ reported' = reported
          /\ ~FACTOR_FOUND /\ ~FACTOR_FOUND'
    /\ (pc = "while" /\ ATTEMPT > 0 /\ phase[1] = 0) =>
          /\ ~FACTOR_FOUND
          /\ pc' = "attempt"

C6_ZeroPhaseRetries == [][C6_ZeroPhaseStep]_vars

C6_Witness ==
    /\ pc = "if" /\ ATTEMPT = 2
    /\ printed_r[1] = 1 /\ guesses = << >> /\ reported = << >>

\* C7: c_amod15(a, 15) raises, with no operator built, for every a outside
\* {2,4,7,8,11,13}, and returns an operator for every a inside.
C7_InvalidMultiplierRaises ==
    op_pc # "call" =>
        IF op_a \in {2, 4, 7, 8, 11, 13}
        THEN op_pc \in {"built", "loaded"} /\ ~c_U.raised /\ c_U.name = <<op_a, 15>>
        ELSE op_pc = "raised" /\ c_U = NoGate

C7_Witness == op_pc = "raised" /\ op_a = 9

\* C8: the loop ends exactly at the end of the first attempt in which a
\* guess was accepted: it does not end with no guess accepted, it ends at the
\* loop test that follows an accepted guess, and once a factor is reported no
\* phase is estimated and the attempt counter does not grow.
C8_Step ==
    /\ pc' = "done" => (FACTOR_FOUND' /\ Len(reported') > 0)
    /\ Len(reported) > 0 =>
          /\ ATTEMPT' = ATTEMPT
          /\ phase' = phase
          /\ printed_r' = printed_r
          /\ pc' # "attempt"
    /\ (pc = "while" /\ Len(reported) > 0) => pc' = "done"
    /\ (pc = "while" /\ Len(reported) = 0) => pc' # "done"

C8_EndsAtFirstAcceptingAttempt == [][C8_Step]_vars

C8_Witness == pc = "done" /\ ATTEMPT = 2 /\ reported = <<3, 5>>

\* C9: in the finished circuit, control qubit i is the control of exactly
\* 2^i controlled operations, each on the whole target register, all after
\* that qubit's Hadamard and before the inverse QFT and the measurement.
C9_ControlBitRepetitions ==
    pe_pc \in {"sample", "done"} =>
        /\ qc[Len(qc) - 1].op = "iqft"
        /\ qc[Len(qc)].op = "measure"
        /\ \A i \in 0..(precision - 1) :
              LET apps == {k \in 1..Len(qc) :
                             qc[k].op = "controlled_operation" /\ qc[k].qubits[1] = i}
                  hs   == {k \in 1..Len(qc) : qc[k].op = "h" /\ qc[k].qubits = <<i>>}
              IN  /\ Cardinality(apps) = Pow(2, i)
                  /\ Cardinality(hs) = 1
                  /\ \A k \in apps :
                        /\ qc[k].qubits = <<i>> \o [j \in 1..4 |-> precision + j - 1]
                        /\ \A h \in hs : h < k
                        /\ k < Len(qc) - 1

C9_Witness ==
    /\ pe_pc = "done" /\ precision = 3
    /\ Cardinality({k \in 1..Len(qc) :
                      qc[k].op = "controlled_operation" /\ qc[k].qubits[1] = 2}) = 4

\* C10: for a in {2,4,7,8,11,13} and an odd period r, both guesses fail the
\* acceptance check (each is 1, N or no divisor of N) and the attempt reports
\* no factor.
C10_OddPeriodNeverReports ==
    (pc = "for" /\ a \in {2, 4, 7, 8, 11, 13} /\ r % 2 = 1) =>
        /\ \A i \in 1..Len(guesses) :
              guesses[i] \in {1, 15} \/ 15 % guesses[i] # 0
        /\ reported = << >>

====
